---- MODULE Spec2Model ----
(***************************************************************************)
(* A model of src/src/nlp_pipeline.py: the section detector                *)
(* (UniversalSectionDetector), the pipeline orchestrator                   *)
(* (split_documents_into_sections) and the snippet extractor               *)
(* (extract_refined_snippet).                                              *)
(*                                                                         *)
(* A Python str is a sequence of one-character strings, so that strip,     *)
(* split, lower, title, slicing and the regular expressions are computed   *)
(* character by character as the code computes them.  The spaCy model      *)
(* (nlp) is an external collaborator: its part-of-speech verdict on a      *)
(* line, its noun chunks and its similarity ranking are nondeterministic   *)
(* choices; nlp = FALSE is the code's `nlp = None` branch.                 *)
(***************************************************************************)
EXTENDS Integers, Sequences, FiniteSets, TLC

VARIABLES
    nlp,            \* module global: TRUE when spacy.load succeeded
    pc,             \* position in the running function
    \* split_documents_into_sections
    docs_text,      \* pages still to be processed, in iteration order
    section_chunks, \* the list being built
    \* detect_sections
    page_text, lines, heading_idxs, sections,
    i,              \* position of the loop being run
    \* extract_refined_snippet
    section_text, query_vector, persona, max_length,
    sentences, ranked, result, snippet

vars == <<nlp, pc, docs_text, section_chunks,
          page_text, lines, i, heading_idxs, sections,
          section_text, query_vector, persona, max_length,
          sentences, ranked, result, snippet>>

detectVars == <<page_text, lines, heading_idxs, sections>>
snippetVars == <<section_text, query_vector, persona, max_length,
                 sentences, ranked, result, snippet>>

---------------------------------------------------------------------------
(* Characters and the str methods the code uses.                           *)

NL == "\n"

UpperSeq == <<"A","B","C","D","E","F","G","H","I","J","K","L","M",
              "N","O","P","Q","R","S","T","U","V","W","X","Y","Z">>
LowerSeq == <<"a","b","c","d","e","f","g","h","i","j","k","l","m",
              "n","o","p","q","r","s","t","u","v","w","x","y","z">>
UpperChars == {UpperSeq[n] : n \in DOMAIN UpperSeq}
LowerChars == {LowerSeq[n] : n \in DOMAIN LowerSeq}
DigitChars == {"0","1","2","3","4","5","6","7","8","9"}
SpaceChars == {" ", "\t", NL}

\* c.isalpha(), c.isupper(), c.islower()
IsAlpha(c) == c \in UpperChars \cup LowerChars
IsUpper(c) == c \in UpperChars
IsLower(c) == c \in LowerChars

LetterIndex(c, alphabet) == CHOOSE n \in DOMAIN alphabet : alphabet[n] = c
CharLower(c) == IF c \in UpperChars THEN LowerSeq[LetterIndex(c, UpperSeq)] ELSE c
CharUpper(c) == IF c \in LowerChars THEN UpperSeq[LetterIndex(c, LowerSeq)] ELSE c

\* A function over 1..n as a sequence value.
AsSeq(f) == SubSeq(f, 1, Len(f))

\* s.lower()
Lower(s) == AsSeq([n \in 1..Len(s) |-> CharLower(s[n])])

\* s.title(): a letter is upper-cased after a non-letter, lower-cased after a letter
Title(s) ==
    AsSeq([n \in 1..Len(s) |->
        IF IsAlpha(s[n])
        THEN IF n = 1 \/ ~IsAlpha(s[n-1]) THEN CharUpper(s[n]) ELSE CharLower(s[n])
        ELSE s[n]])

SetMin(S) == CHOOSE x \in S : \A y \in S : x <= y
SetMax(S) == CHOOSE x \in S : \A y \in S : x >= y

\* s.strip(): from the first to the last character that is no whitespace
RECURSIVE FirstNonSpace(_, _)
FirstNonSpace(s, n) ==
    IF n > Len(s) \/ s[n] \notin SpaceChars THEN n ELSE FirstNonSpace(s, n + 1)

RECURSIVE LastNonSpace(_, _)
LastNonSpace(s, n) ==
    IF n = 0 \/ s[n] \notin SpaceChars THEN n ELSE LastNonSpace(s, n - 1)

Strip(s) == SubSeq(s, FirstNonSpace(s, 1), LastNonSpace(s, Len(s)))

\* s[:n] for n >= 0
Slice(s, n) == SubSeq(s, 1, IF n < Len(s) THEN n ELSE Len(s))

\* the elements of a set of integers in ascending order
SortedSeq(S) ==
    [n \in 1..Cardinality(S) |-> CHOOSE x \in S : Cardinality({y \in S : y < x}) = n - 1]

\* s.split(sep) for one-character separators, and re.split('[seps]', s):
\* the pieces between separators, empty pieces kept
SplitOn(s, seps) ==
    LET at == SortedSeq({n \in 1..Len(s) : s[n] \in seps})
        cnt == Len(at)
        from(n) == IF n = 1 THEN 1 ELSE at[n-1] + 1
        upto(n) == IF n = cnt + 1 THEN Len(s) ELSE at[n] - 1
    IN  AsSeq([n \in 1..(cnt + 1) |-> SubSeq(s, from(n), upto(n))])

\* set(s.split()): the maximal runs of non-whitespace characters
WordSet(s) ==
    LET starts == {n \in 1..Len(s) : s[n] \notin SpaceChars
                                     /\ (n = 1 \/ s[n-1] \in SpaceChars)}
        ends   == {n \in 1..Len(s) : s[n] \notin SpaceChars
                                     /\ (n = Len(s) \/ s[n+1] \in SpaceChars)}
    IN  {SubSeq(s, a, SetMin({e \in ends : e >= a})) : a \in starts}

\* len(s.split())
WordCount(s) ==
    Cardinality({n \in 1..Len(s) : s[n] \notin SpaceChars
                                   /\ (n = 1 \/ s[n-1] \in SpaceChars)})

\* sub in s
Contains(sub, s) ==
    \E n \in 0..(Len(s) - Len(sub)) : SubSeq(s, n + 1, n + Len(sub)) = sub

\* s.startswith(p)
StartsWith(s, p) == Len(s) >= Len(p) /\ SubSeq(s, 1, Len(p)) = p

\* s.endswith(c) for a set of one-character suffixes
EndsWithAny(s, cs) == Len(s) > 0 /\ s[Len(s)] \in cs

\* "\n".join(ls)
RECURSIVE JoinLines(_)
JoinLines(ls) ==
    IF ls = <<>> THEN <<>>
    ELSE IF Len(ls) = 1 THEN ls[1]
    ELSE ls[1] \o <<NL>> \o JoinLines(Tail(ls))

---------------------------------------------------------------------------
(* UniversalSectionDetector: the rule tables and the two predicates.       *)

\* "untitled section", "section", "heading", "index"
UntitledSection == <<"u","n","t","i","t","l","e","d"," ","s","e","c","t","i","o","n">>
SectionWord == <<"s","e","c","t","i","o","n">>
HeadingWord == <<"h","e","a","d","i","n","g">>
IndexWord == <<"i","n","d","e","x">>

\* "Guide", "Checklist", "Tips", "Things to Do"
GuideWord == <<"G","u","i","d","e">>
ChecklistWord == <<"C","h","e","c","k","l","i","s","t">>
TipsWord == <<"T","i","p","s">>
ThingsToDo == <<"T","h","i","n","g","s"," ","t","o"," ","D","o">>

\* the bullet glyphs of the code that the model's alphabet holds
BulletGlyphs == {<<"-">>, <<"*">>}

FOCUS_KEYWORDS == {
    <<"g","u","i","d","e">>,
    <<"h","o","w"," ","t","o">>,
    <<"c","r","e","a","t","e">>,
    <<"c","o","n","v","e","r","t">>,
    <<"e","d","i","t">>,
    <<"c","h","e","c","k","l","i","s","t">>,
    <<"t","i","p","s">>,
    <<"t","r","i","c","k","s">>,
    <<"i","n","t","r","o","d","u","c","t","i","o","n">>,
    <<"o","v","e","r","v","i","e","w">>,
    <<"s","u","m","m","a","r","y">>,
    <<"a","c","t","i","v","i","t","y">>,
    <<"a","c","t","i","v","i","t","i","e","s">>,
    <<"c","u","l","i","n","a","r","y">>,
    <<"n","i","g","h","t","l","i","f","e">>,
    <<"e","n","t","e","r","t","a","i","n","m","e","n","t">>,
    <<"f","o","r","m","s">>,
    <<"s","i","g","n">> }

\* ^[A-Z][^\.\n]{10,100}$
HeaderPattern1(s) ==
    /\ Len(s) >= 11 /\ Len(s) <= 101
    /\ IsUpper(s[1])
    /\ \A n \in 2..Len(s) : s[n] \notin {".", NL}

\* ^(?:[A-Z][a-z0-9 \-&\(\),:]{8,120})$
HeaderPattern2(s) ==
    /\ Len(s) >= 9 /\ Len(s) <= 121
    /\ IsUpper(s[1])
    /\ \A n \in 2..Len(s) :
          s[n] \in LowerChars \cup DigitChars \cup {" ", "-", "&", "(", ")", ",", ":"}

\* ^([A-Z][a-z]+(?: [A-Z][a-z]+)+)$
HeaderPattern3(s) ==
    LET ws == SplitOn(s, {" "})
    IN  /\ Len(ws) >= 2
        /\ \A n \in 1..Len(ws) :
              /\ Len(ws[n]) >= 2
              /\ IsUpper(ws[n][1])
              /\ \A m \in 2..Len(ws[n]) : IsLower(ws[n][m])

\* ^(?:[A-Za-z].*Guide|Checklist|Tips|Things to Do)   (re.match: at the start)
HeaderPattern4(s) ==
    \/ /\ Len(s) >= 1 /\ IsAlpha(s[1])
       /\ \E n \in 2..(Len(s) - 4) : SubSeq(s, n, n + 4) = GuideWord
    \/ StartsWith(s, ChecklistWord)
    \/ StartsWith(s, TipsWord)
    \/ StartsWith(s, ThingsToDo)

HEADER_PATTERNS(s) ==
    HeaderPattern1(s) \/ HeaderPattern2(s) \/ HeaderPattern3(s) \/ HeaderPattern4(s)

\* _is_heading(line)
_is_heading(line) ==
    LET lclean == Strip(line)
    IN  /\ line # <<>>
        /\ Lower(lclean) \notin {UntitledSection, SectionWord, HeadingWord, IndexWord}
        /\ lclean \notin BulletGlyphs \cup {<<".">>}
        /\ ~EndsWithAny(lclean, {"."})
        /\ Len(lclean) >= 10
        /\ \/ HEADER_PATTERNS(lclean)
           \/ \E k \in FOCUS_KEYWORDS : Contains(k, Slice(Lower(lclean), 50))

\* _is_usable_title without its last test (a title may start in lowercase)
UsableTitleIgnoringCase(title) ==
    LET t == Strip(title)
    IN  /\ title # <<>> /\ Len(title) >= 10
        /\ Lower(t) # UntitledSection
        /\ ~EndsWithAny(t, {".", "*", ":", ";"})
        /\ t \notin BulletGlyphs
        /\ \E n \in 1..Len(t) : IsAlpha(t[n])
        /\ Lower(t) \notin {SectionWord, HeadingWord}
        /\ WordCount(t) >= 2

\* _is_usable_title(title)
_is_usable_title(title) ==
    LET t == Strip(title)
    IN  /\ title # <<>> /\ Len(title) >= 10
        /\ Lower(t) # UntitledSection
        /\ ~EndsWithAny(t, {".", "*", ":", ";"})
        /\ t \notin BulletGlyphs
        /\ \E n \in 1..Len(t) : IsAlpha(t[n])
        /\ Lower(t) \notin {SectionWord, HeadingWord}
        /\ WordCount(t) >= 2
        /\ ~IsLower(t[1])


---------------------------------------------------------------------------
(* Inputs of the section detector: page texts built from a pool of lines.  *)

MaxLines == 3
MaxChunkWords == 3

\* "Packing Checklist"
PackingChecklist == <<"P","a","c","k","i","n","g"," ","C","h","e","c","k","l","i","s","t">>
\* "Bring sunscreen and a hat."
BringSunscreen == <<"B","r","i","n","g"," ","s","u","n","s","c","r","e","e","n"," ","a","n","d"," ","a"," ","h","a","t",".">>
\* "Travel Tips For Families"
TravelTipsForFamilies == <<"T","r","a","v","e","l"," ","T","i","p","s"," ","F","o","r"," ","F","a","m","i","l","i","e","s">>
\* "Book early and travel light."
BookEarlyAndTravelLight == <<"B","o","o","k"," ","e","a","r","l","y"," ","a","n","d"," ","t","r","a","v","e","l"," ","l","i","g","h","t",".">>
\* "Bring sunscreen and a hat to the sunny beach."
LongBodyLine == <<"B","r","i","n","g"," ","s","u","n","s","c","r","e","e","n"," ","a","n","d"," ","a"," ","h","a","t"," ","t","o"," ","t","h","e"," ","s","u","n","n","y"," ","b","e","a","c","h",".">>
\* "Book early."
ShortBodyLine == <<"B","o","o","k"," ","e","a","r","l","y",".">>
\* "10 tips for trips"
DigitHeading == <<"1","0"," ","t","i","p","s"," ","f","o","r"," ","t","r","i","p","s">>
\* "What To Bring?"
QuestionHeading == <<"W","h","a","t"," ","T","o"," ","B","r","i","n","g","?">>
\* "hats and towels for all"
LowercaseLine == <<"h","a","t","s"," ","a","n","d"," ","t","o","w","e","l","s"," ","f","o","r"," ","a","l","l">>
\* "Hotel No. 5 by the bay"
DottedLine == <<"H","o","t","e","l"," ","N","o","."," ","5"," ","b","y"," ","t","h","e"," ","b","a","y">>
\* "  Travel Tips:"
ColonHeading == <<" "," ","T","r","a","v","e","l"," ","T","i","p","s",":">>

\* "Accommodation"
SingleWordHeading == <<"A","c","c","o","m","m","o","d","a","t","i","o","n">>

LinePool == { PackingChecklist, LongBodyLine, ShortBodyLine, DigitHeading,
              QuestionHeading, LowercaseLine, DottedLine, ColonHeading,
              SingleWordHeading, <<>> }

\* the page text of the specification's two-heading example
ExamplePage ==
    JoinLines(<<PackingChecklist, BringSunscreen,
                TravelTipsForFamilies, BookEarlyAndTravelLight>>)

\* two headings, each followed by a body of at least 30 characters
TwoSectionPage ==
    JoinLines(<<PackingChecklist, LongBodyLine, QuestionHeading, LongBodyLine>>)

\* no heading candidate unless the Oracle names one; 34 characters
FallbackPage == JoinLines(<<DottedLine, ShortBodyLine>>)

\* a whitespace-only page
BlankPage == <<" ", NL, " ">>

PageTexts ==
    {JoinLines(ls) : ls \in UNION {[1..n -> LinePool] : n \in 0..MaxLines}}
        \cup {ExamplePage, TwoSectionPage, BlankPage}

\* docs_text as the nested loops of lines 95-96 visit it, each page with its
\* document's name: every one-page input, and two-page inputs over some pages
Page(n, text) == [document |-> "doc", page_number |-> n, text |-> text]
DocsTexts ==
    {<<Page(1, t)>> : t \in PageTexts}
        \cup {<<Page(1, t), Page(2, u)>> :
                 t \in {TwoSectionPage, PackingChecklist},
                 u \in {TwoSectionPage, FallbackPage, ExamplePage}}

---------------------------------------------------------------------------
(* split_documents_into_sections and detect_sections, statement by         *)
(* statement.  Line indices are 1-based here, 0-based in the code.         *)

min_section_length == 30
MinContentLength == 30

\* line 48: the candidates of the longest-line fallback
IsNonBulletLine(l) ==
    /\ Len(l) >= 10
    /\ l \notin BulletGlyphs
    /\ IsUpper(l[1])
    /\ " " \in {l[n] : n \in 1..Len(l)}

\* max(ls, key=len): the first element of maximal length
MaxByLen(ls) ==
    ls[SetMin({n \in 1..Len(ls) : \A m \in 1..Len(ls) : Len(ls[m]) <= Len(ls[n])})]

\* lines 34-36: the lexical part of the Oracle's heading test; the noun-chunk
\* and verb tests are the Oracle's answer
OracleHeadingEligible(line) == Len(line) > 10 /\ ~EndsWithAny(line, {"."})

\* lines 54-55: the texts doc.noun_chunks may hold: spans of whole words of
\* the page, stripped, longer than 12 characters, title-cased
NounChunkTitles(text) ==
    LET starts == {n \in 1..Len(text) : text[n] \notin SpaceChars
                                        /\ (n = 1 \/ text[n-1] \in SpaceChars)}
        ends   == {n \in 1..Len(text) : text[n] \notin SpaceChars
                                        /\ (n = Len(text) \/ text[n+1] \in SpaceChars)}
        spans  == {<<a, e>> \in starts \X ends :
                      /\ a <= e
                      /\ Cardinality({b \in starts : a <= b /\ b <= e}) <= MaxChunkWords}
    IN  {Title(Strip(SubSeq(text, sp[1], sp[2]))) :
            sp \in {q \in spans : Len(Strip(SubSeq(text, q[1], q[2]))) > 12}}

\* lines 95-100 and 25-27: take the next page and enter detect_sections
BeginPage ==
    /\ pc = "next_page" /\ docs_text # <<>>
    /\ page_text' = Head(docs_text).text
    /\ lines' = LET raw == SplitOn(Head(docs_text).text, {NL})
                IN  AsSeq([n \in 1..Len(raw) |-> Strip(raw[n])])
    /\ heading_idxs' = <<>>
    /\ sections' = <<>>
    /\ i' = 1
    /\ pc' = "scan"
    /\ UNCHANGED <<nlp, docs_text, section_chunks, snippetVars>>

\* lines 28-37: one iteration of the heading scan
ScanLine ==
    /\ pc = "scan" /\ i <= Len(lines)
    /\ \/ /\ _is_heading(lines[i])
          /\ heading_idxs' = Append(heading_idxs, i)
       \/ /\ ~_is_heading(lines[i]) /\ nlp /\ OracleHeadingEligible(lines[i])
          /\ heading_idxs' = Append(heading_idxs, i)     \* noun phrase, no verb
       \/ /\ ~_is_heading(lines[i])
          /\ heading_idxs' = heading_idxs                \* no Oracle, or it says no
    /\ i' = i + 1
    /\ UNCHANGED <<nlp, pc, docs_text, section_chunks, page_text, lines, sections,
                   snippetVars>>

\* line 38: heading_idxs = sorted(set(heading_idxs))
SortHeadings ==
    /\ pc = "scan" /\ i > Len(lines)
    /\ heading_idxs' = AsSeq(SortedSeq({heading_idxs[n] : n \in 1..Len(heading_idxs)}))
    /\ i' = 1
    /\ pc' = "build"
    /\ UNCHANGED <<nlp, docs_text, section_chunks, page_text, lines, sections,
                   snippetVars>>

\* line 44: the non-blank lines strictly between two headings, joined and stripped
SectionContent(hidx, hend) ==
    Strip(JoinLines(SelectSeq(SubSeq(lines, hidx + 1, hend - 1),
                              LAMBDA l : Strip(l) # <<>>)))

\* the primary pass without the test of the content's length
PrimarySectionAnyLength(hidx, hend) ==
    LET title == Strip(lines[hidx])
        content == SectionContent(hidx, hend)
    IN  IF ~_is_usable_title(title) THEN <<>> ELSE << <<title, content>> >>

\* lines 42-46 for the i-th heading: the section appended, if any
PrimarySection(hidx, hend) ==
    LET title == Strip(lines[hidx])
        content == SectionContent(hidx, hend)
    IN  IF ~_is_usable_title(title) THEN <<>>
        ELSE IF Len(content) < MinContentLength THEN <<>>
        ELSE << <<title, content>> >>

\* lines 40-46: one iteration of the section loop
BuildSection ==
    /\ pc = "build" /\ i <= Len(heading_idxs)
    /\ LET hidx == heading_idxs[i]
           hend == IF i + 1 <= Len(heading_idxs) THEN heading_idxs[i+1]
                                                 ELSE Len(lines) + 1
       IN  sections' = sections \o PrimarySection(hidx, hend)
    /\ i' = i + 1
    /\ UNCHANGED <<nlp, pc, docs_text, section_chunks, page_text, lines, heading_idxs,
                   snippetVars>>

EndBuild ==
    /\ pc = "build" /\ i > Len(heading_idxs)
    /\ pc' = "fallback"
    /\ UNCHANGED <<nlp, docs_text, section_chunks, i, detectVars, snippetVars>>

\* line 47: the guard of the fallback ladder
FallbackGuard == sections = <<>> /\ nlp /\ Strip(page_text) # <<>>

\* the longest-line fallback without the test of its title
LongestLineSectionUnchecked ==
    LET lines_non_bullet == SelectSeq(lines, IsNonBulletLine)
        best_title == MaxByLen(lines_non_bullet)
    IN  << <<best_title, Strip(page_text)>> >>

\* lines 48-52: the longest-line fallback
LongestLineSection ==
    LET lines_non_bullet == SelectSeq(lines, IsNonBulletLine)
        best_title == MaxByLen(lines_non_bullet)
    IN  IF _is_usable_title(best_title)
        THEN << <<best_title, Strip(page_text)>> >>
        ELSE <<>>

\* lines 56-59: the section for the noun chunk the loop stops at
ChunkSection(probable) ==
    IF _is_usable_title(probable) THEN << <<probable, Strip(page_text)>> >> ELSE <<>>

\* lines 47-59
Fallback ==
    /\ pc = "fallback"
    /\ \/ /\ ~FallbackGuard
          /\ sections' = sections
       \/ /\ FallbackGuard
          /\ SelectSeq(lines, IsNonBulletLine) # <<>>
          /\ sections' = sections \o LongestLineSection
       \/ /\ FallbackGuard
          /\ SelectSeq(lines, IsNonBulletLine) = <<>>
          \* the loop ends at the first usable chunk: what a list of chunks
          \* yields is what one of its chunks alone yields
          /\ \/ sections' = sections                 \* doc.noun_chunks is empty
             \/ \E probable \in NounChunkTitles(page_text) :
                   sections' = sections \o ChunkSection(probable)
    /\ pc' = "last"
    /\ UNCHANGED <<nlp, docs_text, section_chunks, page_text, lines, i, heading_idxs,
                   snippetVars>>

\* lines 60-63: detect_sections returns
LastResort ==
    /\ pc = "last"
    /\ sections' = IF sections = <<>> /\ Len(Strip(page_text)) >= 30 THEN <<>>
                   ELSE sections
    /\ pc' = "returned"
    /\ UNCHANGED <<nlp, docs_text, section_chunks, page_text, lines, i, heading_idxs,
                   snippetVars>>

\* the keywords of _classify_section_type
KwGuide == <<"g","u","i","d","e">>
KwConvert == <<"c","o","n","v","e","r","t">>
KwExport == <<"e","x","p","o","r","t">>
KwSign == <<"s","i","g","n">>
KwSignature == <<"s","i","g","n","a","t","u","r","e">>
KwChecklist == <<"c","h","e","c","k","l","i","s","t">>
KwActivity == <<"a","c","t","i","v","i","t","y">>
KwThingsToDo == <<"t","h","i","n","g","s"," ","t","o"," ","d","o">>
KwPacking == <<"p","a","c","k","i","n","g">>
KwTips == <<"t","i","p","s">>
KwTrick == <<"t","r","i","c","k">>
KwNightlife == <<"n","i","g","h","t","l","i","f","e">>
KwEntertainment == <<"e","n","t","e","r","t","a","i","n","m","e","n","t">>

\* lines 115-125: the first rule that matches the lowercased title
_classify_section_type(title, content) ==
    LET t == Lower(title)
    IN  IF Contains(KwGuide, t) THEN "guide"
        ELSE IF Contains(KwConvert, t) \/ Contains(KwExport, t) THEN "conversion"
        ELSE IF Contains(KwSign, t) \/ Contains(KwSignature, t) THEN "signatures"
        ELSE IF Contains(KwChecklist, t) THEN "checklist"
        ELSE IF Contains(KwActivity, t) \/ Contains(KwThingsToDo, t) THEN "activity"
        ELSE IF Contains(KwPacking, t) THEN "tips"
        ELSE IF Contains(KwTips, t) \/ Contains(KwTrick, t) THEN "tips"
        ELSE IF Contains(KwNightlife, t) \/ Contains(KwEntertainment, t)
             THEN "entertainment"
        ELSE "content"

\* lines 103-112: the record of one section of a page
ChunkRecord(page, sec) ==
    LET section_title == sec[1]
        section_text_ == sec[2]
    IN  [ document       |-> page.document,
          page_number    |-> page.page_number,
          section_title  |-> section_title,
          section_text   |-> section_text_,
          word_count     |-> WordCount(section_text_),
          char_count     |-> Len(section_text_),
          sentence_count |-> Len(SelectSeq(SplitOn(section_text_, {"."}),
                                           LAMBDA q : Strip(q) # <<>>)),
          section_type   |-> _classify_section_type(section_title, section_text_) ]

\* the loop body without the filter on min_section_length
ChunkUnfiltered(page, sec) == <<ChunkRecord(page, sec)>>

\* lines 101-112: what one returned section appends to section_chunks
Chunk(page, sec) ==
    IF Len(Strip(sec[2])) < min_section_length THEN <<>>
    ELSE <<ChunkRecord(page, sec)>>

RECURSIVE Chunks(_, _)
Chunks(page, secs) ==
    IF secs = <<>> THEN <<>>
    ELSE Chunk(page, Head(secs)) \o Chunks(page, Tail(secs))

\* lines 100-112: the loop over the sections detect_sections returned
CollectChunks ==
    /\ pc = "returned"
    /\ section_chunks' = section_chunks \o Chunks(Head(docs_text), sections)
    /\ docs_text' = Tail(docs_text)
    /\ pc' = "next_page"
    /\ UNCHANGED <<nlp, i, detectVars, snippetVars>>

\* line 113: return section_chunks
ReturnChunks ==
    /\ pc = "next_page" /\ docs_text = <<>>
    /\ pc' = "done"
    /\ UNCHANGED <<nlp, docs_text, section_chunks, i, detectVars, snippetVars>>

SectionsInit ==
    /\ nlp \in BOOLEAN
    /\ docs_text \in DocsTexts
    /\ section_chunks = <<>>
    /\ pc = "next_page"
    /\ page_text = <<>> /\ lines = <<>> /\ i = 1 /\ heading_idxs = <<>> /\ sections = <<>>
    /\ section_text = <<>> /\ query_vector = <<>> /\ persona = <<>> /\ max_length = 0
    /\ sentences = <<>> /\ ranked = <<>> /\ result = <<>> /\ snippet = <<>>

SectionsNext ==
    \/ BeginPage \/ ScanLine \/ SortHeadings \/ BuildSection \/ EndBuild
    \/ Fallback \/ LastResort \/ CollectChunks \/ ReturnChunks

SectionsSpec == SectionsInit /\ [][SectionsNext]_vars

---------------------------------------------------------------------------
(* Inputs of the snippet extractor.                                        *)

MaxSentences == 3
DefaultMaxLength == 320

\* "pack light bags"
PackLightBags == <<"p","a","c","k"," ","l","i","g","h","t"," ","b","a","g","s">>
\* "bring sunscreen and hats"
BringSunscreenAndHats == <<"b","r","i","n","g"," ","s","u","n","s","c","r","e","e","n"," ","a","n","d"," ","h","a","t","s">>
\* "  tiny trip  ": 9 characters once stripped, no candidate sentence
TinyTrip == <<" "," ","t","i","n","y"," ","t","r","i","p"," "," ">>
\* "pack " followed by 320 times "x": longer than DefaultMaxLength
LongSentence == <<"p","a","c","k"," ">> \o AsSeq([n \in 1..DefaultMaxLength |-> "x"])

SentencePool == {PackLightBags, BringSunscreenAndHats, TinyTrip, LongSentence}

\* the pieces, each followed by "." and separated by a newline
RECURSIVE JoinSentences(_)
JoinSentences(ps) ==
    IF ps = <<>> THEN <<>>
    ELSE IF Len(ps) = 1 THEN ps[1] \o <<".">>
    ELSE ps[1] \o <<".", NL>> \o JoinSentences(Tail(ps))

SectionTexts ==
    {JoinSentences(ps) : ps \in UNION {[1..n -> SentencePool] : n \in 0..MaxSentences}}

\* "pack bags", "Sunscreen Hats"
QueryPackBags == <<"p","a","c","k"," ","b","a","g","s">>
QuerySunscreenHats == <<"S","u","n","s","c","r","e","e","n"," ","H","a","t","s">>
Queries == {QueryPackBags, QuerySunscreenHats}

\* "HR Manager", "Travel Blogger"
HRManager == <<"H","R"," ","M","a","n","a","g","e","r">>
TravelBlogger == <<"T","r","a","v","e","l"," ","B","l","o","g","g","e","r">>
Personas == {<<>>, HRManager, TravelBlogger}

MaxLengths == {0, 25, 45, DefaultMaxLength}

---------------------------------------------------------------------------
(* extract_refined_snippet, statement by statement.                        *)

\* "HR", "Travel", "For HR professionals: ", "Travel planner note: ", ". "
HRTag == <<"H","R">>
TravelTag == <<"T","r","a","v","e","l">>
HRPrefix == <<"F","o","r"," ","H","R"," ","p","r","o","f","e","s","s","i","o","n","a","l","s",":"," ">>
TravelPrefix == <<"T","r","a","v","e","l"," ","p","l","a","n","n","e","r"," ","n","o","t","e",":"," ">>
SentenceEnd == <<".", " ">>

\* line 145: the stripped pieces between '.' and newline longer than 10
CandidateSentences(text) ==
    LET pieces == SplitOn(text, {".", NL})
        stripped == AsSeq([n \in 1..Len(pieces) |-> Strip(pieces[n])])
    IN  SelectSeq(stripped, LAMBDA p : Len(p) > 10)

\* line 158: the sort key without the Oracle
Overlap(s, query) == Cardinality(WordSet(Lower(s)) \cap WordSet(Lower(query)))

\* sorted(ss, key=..., reverse=True), keys[n] the key of ss[n]: descending,
\* equal keys in input order
SortedDescending(ss, keys) ==
    LET rank(n) == Cardinality({m \in 1..Len(ss) :
                       \/ keys[m] > keys[n]
                       \/ keys[m] = keys[n] /\ m < n}) + 1
    IN  AsSeq([r \in 1..Len(ss) |-> ss[CHOOSE n \in 1..Len(ss) : rank(n) = r]])

\* the sort in the wrong direction: ascending
RankLexicalAscending(ss, query) ==
    SortedDescending(ss, [n \in 1..Len(ss) |-> 0 - Overlap(ss[n], query)])

\* lines 155-159
RankLexical(ss, query) ==
    SortedDescending(ss, [n \in 1..Len(ss) |-> Overlap(ss[n], query)])

\* lines 149-153: the Oracle's similarity may order the sentences in any way
RankBySimilarity(ss) ==
    {AsSeq([n \in 1..Len(ss) |-> ss[f[n]]]) : f \in Permutations(1..Len(ss))}

\* the annotation without the "HR" prefix
AnnotatedWithoutHR(res) ==
    IF persona # <<>> /\ res # <<>> /\ Contains(TravelTag, persona)
    THEN TravelPrefix \o res ELSE res

\* lines 166-170
Annotated(res) ==
    LET withHR == IF Contains(HRTag, persona) THEN HRPrefix \o res ELSE res
        withTravel == IF Contains(TravelTag, persona) THEN TravelPrefix \o withHR
                      ELSE withHR
    IN  IF persona # <<>> /\ res # <<>> THEN withTravel ELSE res

\* lines 143-147
SplitSentences ==
    /\ pc = "split"
    /\ IF Strip(section_text) = <<>>
       THEN /\ snippet' = <<>>
            /\ pc' = "snip_done"
            /\ UNCHANGED sentences
       ELSE /\ sentences' = CandidateSentences(section_text)
            /\ IF sentences' = <<>>
               THEN snippet' = Slice(section_text, max_length) /\ pc' = "snip_done"
               ELSE snippet' = snippet /\ pc' = "rank"
    /\ UNCHANGED <<nlp, docs_text, section_chunks, i, detectVars,
                   section_text, query_vector, persona, max_length, ranked, result>>

\* lines 148-160
Rank ==
    /\ pc = "rank"
    /\ \/ nlp /\ ranked' \in RankBySimilarity(sentences)
       \/ ~nlp /\ ranked' = RankLexical(sentences, query_vector)
    /\ result' = <<>>
    /\ i' = 1
    /\ pc' = "greedy"
    /\ UNCHANGED <<nlp, docs_text, section_chunks, detectVars,
                   section_text, query_vector, persona, max_length, sentences, snippet>>

\* the loop with `continue` in the place of `break`
GreedyStepSkipping ==
    /\ pc = "greedy"
    /\ \/ /\ i <= Len(ranked)
          /\ Len(result) + Len(ranked[i]) + 2 <= max_length
          /\ result' = result \o ranked[i] \o SentenceEnd
          /\ i' = i + 1 /\ pc' = pc
       \/ /\ i <= Len(ranked)
          /\ ~(Len(result) + Len(ranked[i]) + 2 <= max_length)
          /\ i' = i + 1 /\ pc' = pc
          /\ UNCHANGED result
       \/ /\ i > Len(ranked)
          /\ pc' = "annotate"
          /\ UNCHANGED <<i, result>>
    /\ UNCHANGED <<nlp, docs_text, section_chunks, detectVars,
                   section_text, query_vector, persona, max_length, sentences, ranked,
                   snippet>>

\* lines 161-165: one iteration of the greedy pass, or its end
GreedyStep ==
    /\ pc = "greedy"
    /\ \/ /\ i <= Len(ranked)
          /\ Len(result) + Len(ranked[i]) + 2 <= max_length
          /\ result' = result \o ranked[i] \o SentenceEnd
          /\ i' = i + 1 /\ pc' = pc
       \/ /\ i <= Len(ranked)
          /\ ~(Len(result) + Len(ranked[i]) + 2 <= max_length)
          /\ pc' = "annotate"                       \* break
          /\ UNCHANGED <<i, result>>
       \/ /\ i > Len(ranked)
          /\ pc' = "annotate"
          /\ UNCHANGED <<i, result>>
    /\ UNCHANGED <<nlp, docs_text, section_chunks, detectVars,
                   section_text, query_vector, persona, max_length, sentences, ranked,
                   snippet>>

\* line 171
ReturnedSnippet(res) ==
    IF res # <<>> THEN Strip(res) ELSE Slice(sentences[1], max_length)

\* lines 166-171
AnnotateAndReturn ==
    /\ pc = "annotate"
    /\ result' = Annotated(result)
    /\ snippet' = ReturnedSnippet(result')
    /\ pc' = "snip_done"
    /\ UNCHANGED <<nlp, docs_text, section_chunks, i, detectVars,
                   section_text, query_vector, persona, max_length, sentences, ranked>>

SnippetInit ==
    /\ nlp \in BOOLEAN
    /\ section_text \in SectionTexts
    /\ query_vector \in Queries
    /\ persona \in Personas
    /\ max_length \in MaxLengths
    /\ pc = "split"
    /\ sentences = <<>> /\ ranked = <<>> /\ result = <<>> /\ snippet = <<>>
    /\ i = 1
    /\ docs_text = <<>> /\ section_chunks = <<>>
    /\ page_text = <<>> /\ lines = <<>> /\ heading_idxs = <<>> /\ sections = <<>>

SnippetNext == SplitSentences \/ Rank \/ GreedyStep \/ AnnotateAndReturn

SnippetSpec == SnippetInit /\ [][SnippetNext]_vars

---------------------------------------------------------------------------
(* Properties of detect_sections and split_documents_into_sections,        *)
(* checked under SectionsSpec.                                             *)

Titles == {sections[n][1] : n \in 1..Len(sections)}
Bodies == {sections[n][2] : n \in 1..Len(sections)}
Returned == pc = "returned"

\* C1, as stated: for the four-line example page, detect_sections returns
\* exactly two sections, titled "Packing Checklist" and "Travel Tips For
\* Families" in that order, in both Oracle modes.
C1_ExampleYieldsTwoSections ==
    (Returned /\ page_text = ExamplePage) =>
        /\ Len(sections) = 2
        /\ sections[1][1] = PackingChecklist
        /\ sections[2][1] = TravelTipsForFamilies

\* C1, amended: for the example page the two lines "Packing Checklist" and
\* "Travel Tips For Families" are the heading candidates, in top-to-bottom
\* order, but detect_sections returns the empty list in both Oracle modes:
\* the two bodies have 26 and 28 characters, fewer than 30.
C1_ExampleYieldsNoSection ==
    (Returned /\ page_text = ExamplePage) =>
        /\ heading_idxs = <<1, 3>>
        /\ lines[1] = PackingChecklist /\ lines[3] = TravelTipsForFamilies
        /\ Len(SectionContent(1, 3)) = 26 /\ Len(SectionContent(3, 5)) = 28
        /\ sections = <<>>

C1_ExampleReturned == Returned /\ page_text = ExamplePage /\ nlp /\ sections = <<>>

\* C5: every title detect_sections returns passes _is_usable_title, whatever
\* the page, the Oracle mode and the pass the section came from.
C5_TitlesAreUsable ==
    Returned => \A t \in Titles : _is_usable_title(t)

\* a returned section that the noun-chunk fallback made, on a page where
\* another noun chunk is no usable title
C5_ChunkTitleReturned ==
    /\ Returned /\ Len(sections) = 1
    /\ SelectSeq(lines, IsNonBulletLine) = <<>>
    /\ sections[1][2] = Strip(page_text)
    /\ sections[1][1] \in NounChunkTitles(page_text)
    /\ \E c \in NounChunkTitles(page_text) : ~_is_usable_title(c)

\* C6, as stated: every returned title has at least 2 words, starts with an
\* uppercase letter and does not end in '.', '!' or '?'; every returned body
\* is non-empty after trimming.
C6_TitleShapeAsStated ==
    Returned =>
        /\ \A t \in Titles :
              /\ WordCount(t) >= 2
              /\ IsUpper(t[1])
              /\ ~EndsWithAny(t, {".", "!", "?"})
        /\ \A b \in Bodies : Strip(b) # <<>>

\* C6, amended: every returned title has at least 2 words, does not start
\* with a lowercase letter and does not end in '.', '*', ':' or ';'; every
\* returned body is non-empty after trimming.
C6_TitleShape ==
    Returned =>
        /\ \A t \in Titles :
              /\ WordCount(t) >= 2
              /\ ~IsLower(t[1])
              /\ ~EndsWithAny(t, {".", "*", ":", ";"})
        /\ \A b \in Bodies : Strip(b) # <<>>

\* returned titles that start with a digit and that end in '?'
C6_DigitOrQuestionTitleReturned ==
    /\ Returned
    /\ \E t \in Titles : t[1] \in DigitChars \/ EndsWithAny(t, {"?"})

\* C7: with min_section_length = 30, every chunk's section_text has a
\* trimmed length of at least 30.
C7_ChunkTextAtLeast30 ==
    \A n \in 1..Len(section_chunks) : Len(Strip(section_chunks[n].section_text)) >= 30

\* a page whose fallback section (body = the whole page) became a chunk, after
\* a page whose fallback section was too short to become one
C7_FallbackChunkCollected ==
    /\ pc = "done"
    /\ Len(section_chunks) = 1
    /\ section_chunks[1].page_number = 2
    /\ section_chunks[1].section_text = Strip(page_text)

\* C9, as stated: when the primary pass yields no section and the page is not
\* blank, then in both Oracle modes the longest line of at least 10
\* characters that is no bullet glyph, starts in uppercase and holds a space,
\* if it is a usable title, becomes the title of the one section returned,
\* whose body is the whole trimmed page text.
C9_LongestLineFallbackInBothModes ==
    [][ ( /\ pc = "fallback" /\ sections = <<>> /\ Strip(page_text) # <<>>
          /\ SelectSeq(lines, IsNonBulletLine) # <<>>
          /\ _is_usable_title(MaxByLen(SelectSeq(lines, IsNonBulletLine))) )
        => sections' = << <<MaxByLen(SelectSeq(lines, IsNonBulletLine)),
                            Strip(page_text)>> >> ]_vars

---------------------------------------------------------------------------
(* Properties of extract_refined_snippet, checked under SnippetSpec.       *)

SnippetDone == pc = "snip_done"
\* the greedy pass ran and appended nothing
GreedyEmpty == SnippetDone /\ sentences # <<>> /\ result = <<>>
\* the greedy pass appended at least one sentence
GreedyNonEmpty == SnippetDone /\ result # <<>>

\* C2: when there is a candidate sentence and the greedy pass leaves the
\* buffer empty, the snippet is the first max_length characters of the
\* top-ranked sentence.
C2_FallbackTruncatesTopRanked ==
    GreedyEmpty => snippet = Slice(ranked[1], max_length)

\* C3, as stated: every non-empty snippet begins with "For HR professionals: "
\* under persona "HR Manager" and with "Travel planner note: " under persona
\* "Travel Blogger", the truncation fallbacks included.
C3_PrefixOnEveryNonEmptySnippet ==
    (SnippetDone /\ snippet # <<>>) =>
        /\ persona = HRManager => StartsWith(snippet, HRPrefix)
        /\ persona = TravelBlogger => StartsWith(snippet, TravelPrefix)

\* C3, amended: whenever the greedy pass appended at least one sentence, the
\* snippet begins with "For HR professionals: " under persona "HR Manager"
\* and with "Travel planner note: " under persona "Travel Blogger"; the
\* truncation fallbacks return the truncated text as it is, with no prefix
\* added.
C3_PrefixOnGreedySnippet ==
    /\ GreedyNonEmpty =>
          /\ persona = HRManager => StartsWith(snippet, HRPrefix)
          /\ persona = TravelBlogger => StartsWith(snippet, TravelPrefix)
    /\ GreedyEmpty => snippet = Slice(sentences[1], max_length)
    /\ (SnippetDone /\ sentences = <<>> /\ Strip(section_text) # <<>>) =>
          snippet = Slice(section_text, max_length)

C3_HRSnippetReturned ==
    GreedyNonEmpty /\ persona = HRManager /\ Len(ranked) > 1 /\ snippet # <<>>

\* C4: the returned string is never longer than max_length.
C4_SnippetWithinMaxLength ==
    SnippetDone => Len(snippet) <= max_length

\* the candidate sentence whose overlap with the query is strictly the greatest
StrictlyMostRelevant(n) ==
    /\ n \in 1..Len(sentences)
    /\ \A m \in 1..Len(sentences) :
          m # n => Overlap(sentences[n], query_vector) > Overlap(sentences[m], query_vector)

LexicalCase ==
    SnippetDone /\ ~nlp /\ max_length = DefaultMaxLength /\ persona = <<>>

\* C8, as stated: without the Oracle and with max_length = 320, a candidate
\* sentence whose overlap with the query is strictly the greatest starts the
\* snippet (no persona).
C8_MostRelevantSentenceFirst ==
    LexicalCase =>
        \A n \in 1..Len(sentences) :
            StrictlyMostRelevant(n) => StartsWith(snippet, sentences[n])

\* C8, amended: without the Oracle and with max_length = 320, a candidate
\* sentence of at most 318 characters whose overlap with the query is
\* strictly the greatest starts the snippet (no persona).
C8_MostRelevantFittingSentenceFirst ==
    LexicalCase =>
        \A n \in 1..Len(sentences) :
            (StrictlyMostRelevant(n) /\ Len(sentences[n]) + 2 <= DefaultMaxLength)
                => StartsWith(snippet, sentences[n])

\* the most relevant sentence is not the first of the body, and starts the snippet
C8_RelevantSentenceMovedFirst ==
    /\ LexicalCase
    /\ \E n \in 2..Len(sentences) :
          /\ StrictlyMostRelevant(n)
          /\ sentences[n] # sentences[1]
          /\ StartsWith(snippet, sentences[n])
          /\ Len(snippet) > Len(sentences[n])

\* sum over m <= k of len(ranked[m]) + 2
RECURSIVE PrefixCost(_)
PrefixCost(k) == IF k = 0 THEN 0 ELSE PrefixCost(k - 1) + Len(ranked[k]) + 2

\* ranked[1] ". " ... ranked[k] ". "
RECURSIVE PrefixText(_)
PrefixText(k) == IF k = 0 THEN <<>> ELSE PrefixText(k - 1) \o ranked[k] \o SentenceEnd

LongestFittingPrefix == SetMax({k \in 0..Len(ranked) : PrefixCost(k) <= max_length})

\* C10: the greedy pass leaves in the buffer exactly the longest prefix
\* r1..rk of the ranked list with sum (len(ri) + 2) <= max_length, each
\* sentence followed by ". "; nothing ranked after the first sentence that
\* overflows is appended.
C10_GreedyEmitsLongestFittingPrefix ==
    pc = "annotate" => result = PrefixText(LongestFittingPrefix)

\* the pass stopped at a sentence that overflows, having appended one, while a
\* sentence ranked after it would have fitted
C10_StoppedBeforeFittingSentence ==
    /\ pc = "annotate"
    /\ result # <<>>
    /\ LongestFittingPrefix + 1 < Len(ranked)
    /\ \E m \in (LongestFittingPrefix + 2)..Len(ranked) :
          Len(result) + Len(ranked[m]) + 2 <= max_length

====
